---- MODULE Spec2Model ----
(***************************************************************************)
(* Workout-tracking data layer (backend.py): three tables threaded by      *)
(* value through the record builders and quick_log_set, and the analytics  *)
(* functions computed over them.  A table is the sequence of its rows in   *)
(* table order; a row is a record keyed by the column names.               *)
(***************************************************************************)
EXTENDS Integers, Sequences, FiniteSets, TLC

VARIABLES sessions, exercises, sets, last, issued, direct, calls

vars == <<sessions, exercises, sets, last, issued, direct, calls>>

(* ---------- bounds and input sets ---------- *)

\* number of builder / quick-log calls in one run
MaxCalls == 3

\* number of quick-log calls in one run of the analytics specification
MaxLogs == 2

\* number of builder / removal steps in one run of the removal specification
MaxSteps == 4

\* calendar dates handed in by the caller, as (year, month, day)
Dates == { <<2024, 12, 30>>, <<2025, 1, 1>> }

Groups == { "Push", "Pull" }

Names == { "Bench", "Row" }

\* (set_number, weight, reps) of the sets a caller logs
SetArgs == { <<1, 100, 5>>, <<2, 90, 8>> }

\* session_id / exercise_id a caller passes to add_exercise / add_set
IdArgs == { 1, 2, 3 }

Metrics == { "top_set_weight", "total_volume", "e1rm", "bogus" }

\* Python's None (an argument left at its default)
None == "None"

\* absent value of a string column, a numeric column, a date column
NaS == "NaN"

NaN == 0 - 1

NaT == [year |-> 0, month |-> 0, day |-> 0]

(* ---------- generic helpers ---------- *)

Range(s) == { s[i] : i \in DOMAIN s }

MaxOf(S) == CHOOSE m \in S : \A x \in S : x <= m

MinOf(S) == CHOOSE m \in S : \A x \in S : m <= x

RECURSIVE SumSeq(_)
SumSeq(s) == IF s = <<>> THEN 0 ELSE Head(s) + SumSeq(Tail(s))

RECURSIVE Concat(_)
Concat(ss) == IF ss = <<>> THEN <<>> ELSE Head(ss) \o Concat(Tail(ss))

(* ---------- dates ---------- *)

\* pd.to_datetime(date): the Timestamp (midnight) of a calendar date
to_datetime(date) == [year |-> date[1], month |-> date[2], day |-> date[3]]

IsLeap(y) == (y % 4 = 0) /\ ((y % 100 # 0) \/ (y % 400 = 0))

DaysInMonth(y, m) ==
    IF m = 2 THEN (IF IsLeap(y) THEN 29 ELSE 28)
    ELSE IF m \in {4, 6, 9, 11} THEN 30 ELSE 31

RECURSIVE DaysBeforeMonth(_, _)
DaysBeforeMonth(y, m) ==
    IF m = 1 THEN 0 ELSE DaysBeforeMonth(y, m - 1) + DaysInMonth(y, m - 1)

DaysBeforeYear(y) ==
    365 * (y - 1) + ((y - 1) \div 4) - ((y - 1) \div 100) + ((y - 1) \div 400)

\* proleptic Gregorian ordinal, day 1 = 0001-01-01 (a Monday)
Ordinal(ts) == DaysBeforeYear(ts.year) + DaysBeforeMonth(ts.year, ts.month) + ts.day

\* ordinal of the Monday that starts ISO week 1 of year y
IsoWeek1Monday(y) ==
    LET firstday == DaysBeforeYear(y) + 1
        firstweekday == (firstday + 6) % 7
        monday == firstday - firstweekday
    IN  IF firstweekday > 3 THEN monday + 7 ELSE monday

\* Series.dt.isocalendar(): ISO year and ISO week of a Timestamp
isocalendar(ts) ==
    LET today == Ordinal(ts)
        y == ts.year
    IN  IF today < IsoWeek1Monday(y)
        THEN [year |-> y - 1, week |-> ((today - IsoWeek1Monday(y - 1)) \div 7) + 1]
        ELSE IF today >= IsoWeek1Monday(y + 1)
        THEN [year |-> y + 1, week |-> 1]
        ELSE [year |-> y, week |-> ((today - IsoWeek1Monday(y)) \div 7) + 1]

(* ---------- load ---------- *)

_empty_sessions_df == <<>>

_empty_exercises_df == <<>>

_empty_sets_df == <<>>

\* dtype of the sessions table's date column: a table built from column names
\* only holds object columns; add_session appends Timestamps
DateDtype(sess) == IF sess = <<>> THEN "object" ELSE "datetime64[ns]"

(* ---------- id helper ---------- *)

\* an allocator that forgets the + 1
_next_id_max(df, id_col) ==
    IF df = <<>> THEN 1
    ELSE MaxOf({ df[i][id_col] : i \in DOMAIN df })

\* an allocator that counts the rows instead of taking the largest id
_next_id_count(df, id_col) == Len(df) + 1

_next_id(df, id_col) ==
    IF df = <<>> THEN 1
    ELSE MaxOf({ df[i][id_col] : i \in DOMAIN df }) + 1

(* ---------- record builders ---------- *)

add_session(sess, date, group, notes) ==
    LET session_id == _next_id(sess, "session_id")
        new_row == [session_id |-> session_id, date |-> to_datetime(date),
                    group |-> group, notes |-> notes]
    IN  [sessions |-> Append(sess, new_row), session_id |-> session_id]

add_exercise(exs, session_id, exercise_name, muscle, group) ==
    LET exercise_id == _next_id(exs, "exercise_id")
        new_row == [exercise_id |-> exercise_id, session_id |-> session_id,
                    exercise_name |-> exercise_name,
                    muscle |-> IF muscle # None THEN muscle ELSE "",
                    group |-> IF group # None THEN group ELSE ""]
    IN  [exercises |-> Append(exs, new_row), exercise_id |-> exercise_id]

\* a builder that stores the set's own id as its exercise_id
add_set_own_id(sts, exercise_id, set_number, weight, reps, rir, comments) ==
    LET set_id == _next_id(sts, "set_id")
        new_row == [set_id |-> set_id, exercise_id |-> set_id,
                    set_number |-> set_number, weight |-> weight, reps |-> reps,
                    rir |-> rir, comments |-> comments]
    IN  Append(sts, new_row)

add_set(sts, exercise_id, set_number, weight, reps, rir, comments) ==
    LET set_id == _next_id(sts, "set_id")
        new_row == [set_id |-> set_id, exercise_id |-> exercise_id,
                    set_number |-> set_number, weight |-> weight, reps |-> reps,
                    rir |-> rir, comments |-> comments]
    IN  Append(sts, new_row)

\* a lookup that takes the last row of the mask
LastOf(mask) == MaxOf(mask)

\* sessions.loc[mask, ...].iloc[0]: position of the first row of the mask
FirstOf(mask) == MinOf(mask)

\* the session rows of a date and group
SessionMask(sess, date, day_group) ==
    { i \in DOMAIN sess : sess[i].date = date /\ sess[i].group = day_group }

\* a lookup that compares the exercise's own id with the session id
ExerciseMaskOnExerciseId(exs, session_id, exercise_name) ==
    { i \in DOMAIN exs :
        exs[i].exercise_id = session_id /\ exs[i].exercise_name = exercise_name }

\* the exercise rows of a session and exercise name
ExerciseMask(exs, session_id, exercise_name) ==
    { i \in DOMAIN exs :
        exs[i].session_id = session_id /\ exs[i].exercise_name = exercise_name }

quick_log_set(sess, exs, sts, date0, day_group, exercise_name, set_number, weight, reps, rir, muscle) ==
    LET date == to_datetime(date0)
        mask == SessionMask(sess, date, day_group)
        s == IF mask # {}
             THEN [sessions |-> sess, session_id |-> sess[FirstOf(mask)].session_id]
             ELSE add_session(sess, date0, day_group, "")
        mask_ex == ExerciseMask(exs, s.session_id, exercise_name)
        e == IF mask_ex # {}
             THEN [exercises |-> exs, exercise_id |-> exs[FirstOf(mask_ex)].exercise_id]
             ELSE add_exercise(exs, s.session_id, exercise_name, muscle, day_group)
    IN  [sessions |-> s.sessions, exercises |-> e.exercises,
         sets |-> add_set(sts, e.exercise_id, set_number, weight, reps, rir, ""),
         session_id |-> s.session_id, exercise_id |-> e.exercise_id]

(* ---------- analytics helpers ---------- *)

\* columns an exercise row contributes to the joined table; after the second
\* merge and the rename the exercise's group is the column session_group
ExerciseColumns(e) ==
    [session_id |-> e.session_id, exercise_name |-> e.exercise_name,
     muscle |-> e.muscle, session_group |-> e.group]

NoExerciseColumns ==
    [session_id |-> NaN, exercise_name |-> NaS, muscle |-> NaS, session_group |-> NaS]

\* columns a session row contributes: date renamed session_date, the colliding
\* group suffixed _sess, every other column (notes, week, year) as it is
SessionColumns(s) ==
    [c \in DOMAIN s \ {"session_id", "date", "group"} |-> s[c]]
        @@ [session_date |-> s.date, group_sess |-> s.group]

NoSessionColumns(sess) ==
    [c \in (IF sess = <<>> THEN {} ELSE DOMAIN sess[1] \ {"session_id", "date", "group", "notes"}) |-> NaN]
        @@ [session_date |-> NaT, group_sess |-> NaS, notes |-> NaS]

\* how="inner": a left row without a match is dropped
InnerMatches(matches, absent) == matches

\* how="left": a left row without a match is kept once, with absent right columns
LeftMatches(matches, absent) == IF matches = <<>> THEN <<absent>> ELSE matches

\* sets.merge(exercises, how="left").merge(sessions, how="left"), renamed
_joined_sets(sess, exs, sts) ==
    LET withEx(r) ==
            LET m == SelectSeq(exs, LAMBDA e : e.exercise_id = r.exercise_id)
                c == LeftMatches([j \in 1..Len(m) |-> ExerciseColumns(m[j])], NoExerciseColumns)
            IN  [j \in 1..Len(c) |-> r @@ c[j]]
        df == Concat([i \in 1..Len(sts) |-> withEx(sts[i])])
        withSess(r) ==
            LET m == SelectSeq(sess, LAMBDA s : s.session_id = r.session_id)
                c == LeftMatches([j \in 1..Len(m) |-> SessionColumns(m[j])], NoSessionColumns(sess))
            IN  [j \in 1..Len(c) |-> r @@ c[j]]
    IN  Concat([i \in 1..Len(df) |-> withSess(df[i])])

\* order of sort_values(["session_date", "set_number"]), absent dates last
HistoryBefore(a, b) ==
    IF a.session_date = NaT THEN FALSE
    ELSE IF b.session_date = NaT THEN TRUE
    ELSE \/ Ordinal(a.session_date) < Ordinal(b.session_date)
         \/ /\ Ordinal(a.session_date) = Ordinal(b.session_date)
            /\ a.set_number < b.set_number

\* stable sort: a row goes after every row that is not after it
RECURSIVE sort_values(_)
sort_values(df) ==
    IF df = <<>> THEN <<>>
    ELSE LET x == df[Len(df)]
             s == sort_values(SubSeq(df, 1, Len(df) - 1))
             k == Cardinality({ i \in DOMAIN s : ~HistoryBefore(x, s[i]) })
         IN  SubSeq(s, 1, k) \o <<x>> \o SubSeq(s, k + 1, Len(s))

exercise_history(sess, exs, sts, exercise_name) ==
    LET df == _joined_sets(sess, exs, sts)
    IN  sort_values(SelectSeq(df, LAMBDA r : r.exercise_name = exercise_name))

\* the Timestamps of a set in ascending order (groupby sorts its keys)
RECURSIVE SortedDates(_)
SortedDates(S) ==
    IF S = {} THEN <<>>
    ELSE LET d == CHOOSE x \in S : \A y \in S : Ordinal(x) <= Ordinal(y)
         IN  <<d>> \o SortedDates(S \ {d})

SeqMax(s) == MaxOf(Range(s))

\* df.groupby("session_date")[col].max() / .sum(), as rows (session_date, value):
\* one row per date present, absent dates dropped
GroupBySessionDate(df, col, agg) ==
    LET keys == SortedDates({ df[i].session_date : i \in DOMAIN df } \ {NaT})
    IN  [k \in 1..Len(keys) |->
            LET g == SelectSeq(df, LAMBDA r : r.session_date = keys[k])
                v == [i \in 1..Len(g) |-> g[i][col]]
            IN  [session_date |-> keys[k],
                 value |-> IF agg = "max" THEN SeqMax(v) ELSE SumSeq(v)]]

\* df["volume"] = df["weight"] * df["reps"]
WithVolume(df) == [i \in 1..Len(df) |-> df[i] @@ [volume |-> df[i].weight * df[i].reps]]

\* df["e1rm"] = df["weight"] * (1 + df["reps"] / 30.0); the model carries
\* 30 * e1rm, an integer
WithE1rm(df) == [i \in 1..Len(df) |-> df[i] @@ [e1rm |-> df[i].weight * (30 + df[i].reps)]]

exercise_progress(sess, exs, sts, exercise_name, metric) ==
    LET df == exercise_history(sess, exs, sts, exercise_name)
    IN  IF df = <<>> THEN [status |-> "ok", rows |-> df]
        ELSE IF metric = "top_set_weight"
        THEN [status |-> "ok", rows |-> GroupBySessionDate(df, "weight", "max")]
        ELSE IF metric = "total_volume"
        THEN [status |-> "ok", rows |-> GroupBySessionDate(WithVolume(df), "volume", "sum")]
        ELSE IF metric = "e1rm"
        THEN [status |-> "ok", rows |-> GroupBySessionDate(WithE1rm(df), "e1rm", "max")]
        ELSE [status |-> "ValueError", rows |-> <<>>]

\* Series.dt: only a datetime column has the accessor
HasDt(dtype) == dtype = "datetime64[ns]"

add_week_columns(sess) ==
    IF ~HasDt(DateDtype(sess)) THEN [status |-> "AttributeError", rows |-> <<>>]
    ELSE [status |-> "ok",
          rows |-> [i \in 1..Len(sess) |->
                      sess[i] @@ [week |-> isocalendar(sess[i].date).week,
                                  year |-> sess[i].date.year]]]

\* the week / year / volume columns weekly_volume_by_muscle assigns to a joined row
WeekOf(r) == IF r.session_date = NaT THEN NaN ELSE isocalendar(r.session_date).week

YearOf(r) == IF r.session_date = NaT THEN NaN ELSE r.session_date.year

\* the grouped table as the set of its rows (row order is not modelled)
weekly_volume_by_muscle(sess, exs, sts) ==
    LET s == add_week_columns(sess)
    IN  IF s.status # "ok" THEN [status |-> s.status, rows |-> {}]
        ELSE LET df == _joined_sets(s.rows, exs, sts)
                 kept == SelectSeq(df, LAMBDA r :
                            YearOf(r) # NaN /\ WeekOf(r) # NaN /\ r.muscle # NaS)
                 keys == { <<YearOf(r), WeekOf(r), r.muscle>> : r \in Range(kept) }
                 group(k) == SelectSeq(kept, LAMBDA r :
                                <<YearOf(r), WeekOf(r), r.muscle>> = k)
             IN  IF df = <<>> THEN [status |-> "ok", rows |-> {}]
                 ELSE [status |-> "ok",
                       rows |-> { [year |-> k[1], week |-> k[2], muscle |-> k[3],
                                   sets |-> Len(group(k)),
                                   volume |-> SumSeq([i \in 1..Len(group(k)) |->
                                        group(k)[i].weight * group(k)[i].reps])]
                                  : k \in keys }]

(* ---------- state ---------- *)

\* what the last call was and what it returned
Outcome(op, status, date, group, session_id, exercise_id, exercise_name, metric, rows) ==
    [op |-> op, status |-> status, date |-> date, group |-> group,
     session_id |-> session_id, exercise_id |-> exercise_id,
     exercise_name |-> exercise_name, metric |-> metric, rows |-> rows]

\* ids of the rows appended to a table by one call
NewIds(old, new, id_col) == [i \in 1..(Len(new) - Len(old)) |-> new[Len(old) + i][id_col]]

\* the ids _next_id has handed out so far, per table, in order
Issue(s, e, t) ==
    [sessions |-> issued.sessions \o NewIds(sessions, s, "session_id"),
     exercises |-> issued.exercises \o NewIds(exercises, e, "exercise_id"),
     sets |-> issued.sets \o NewIds(sets, t, "set_id")]

\* load_data with nothing persisted
Init ==
    /\ sessions = _empty_sessions_df
    /\ exercises = _empty_exercises_df
    /\ sets = _empty_sets_df
    /\ last = Outcome("load_data", "ok", NaT, NaS, NaN, NaN, NaS, NaS, <<>>)
    /\ issued = [sessions |-> <<>>, exercises |-> <<>>, sets |-> <<>>]
    /\ direct = FALSE
    /\ calls = 0

(* ---------- calls ---------- *)

AddSession(date, group) ==
    LET r == add_session(sessions, date, group, "")
    IN  /\ sessions' = r.sessions
        /\ UNCHANGED <<exercises, sets>>
        /\ last' = Outcome("add_session", "ok", to_datetime(date), group, r.session_id, NaN, NaS, NaS, <<>>)
        /\ issued' = Issue(r.sessions, exercises, sets)
        /\ direct' = TRUE
        /\ calls' = calls + 1

AddExercise(session_id, exercise_name, muscle, group) ==
    LET r == add_exercise(exercises, session_id, exercise_name, muscle, group)
    IN  /\ exercises' = r.exercises
        /\ UNCHANGED <<sessions, sets>>
        /\ last' = Outcome("add_exercise", "ok", NaT, NaS, session_id, r.exercise_id, exercise_name, NaS, <<>>)
        /\ issued' = Issue(sessions, r.exercises, sets)
        /\ direct' = TRUE
        /\ calls' = calls + 1

AddSet(exercise_id, a) ==
    LET r == add_set(sets, exercise_id, a[1], a[2], a[3], None, "")
    IN  /\ sets' = r
        /\ UNCHANGED <<sessions, exercises>>
        /\ last' = Outcome("add_set", "ok", NaT, NaS, NaN, exercise_id, NaS, NaS, <<>>)
        /\ issued' = Issue(sessions, exercises, r)
        /\ direct' = TRUE
        /\ calls' = calls + 1

QuickLogSet(date, day_group, exercise_name, a, muscle) ==
    LET r == quick_log_set(sessions, exercises, sets, date, day_group,
                           exercise_name, a[1], a[2], a[3], None, muscle)
    IN  /\ sessions' = r.sessions
        /\ exercises' = r.exercises
        /\ sets' = r.sets
        /\ last' = Outcome("quick_log_set", "ok", to_datetime(date), day_group, r.session_id, r.exercise_id, exercise_name, NaS, <<>>)
        /\ issued' = Issue(r.sessions, r.exercises, r.sets)
        /\ UNCHANGED direct
        /\ calls' = calls + 1

JoinedSets ==
    /\ last' = Outcome("_joined_sets", "ok", NaT, NaS, NaN, NaN, NaS, NaS,
                       _joined_sets(sessions, exercises, sets))
    /\ UNCHANGED <<sessions, exercises, sets, issued, direct, calls>>

ExerciseProgress(exercise_name, metric) ==
    LET r == exercise_progress(sessions, exercises, sets, exercise_name, metric)
    IN  /\ last' = Outcome("exercise_progress", r.status, NaT, NaS, NaN, NaN, exercise_name, metric, r.rows)
        /\ UNCHANGED <<sessions, exercises, sets, issued, direct, calls>>

WeeklyVolumeByMuscle ==
    LET r == weekly_volume_by_muscle(sessions, exercises, sets)
    IN  /\ last' = Outcome("weekly_volume_by_muscle", r.status, NaT, NaS, NaN, NaN, NaS, NaS, r.rows)
        /\ UNCHANGED <<sessions, exercises, sets, issued, direct, calls>>

\* a row taken out of a table by something other than this layer
Without(df, i) == SubSeq(df, 1, i - 1) \o SubSeq(df, i + 1, Len(df))

RemoveRow(table, i) ==
    /\ table = "sessions" => i \in DOMAIN sessions
    /\ table = "exercises" => i \in DOMAIN exercises
    /\ table = "sets" => i \in DOMAIN sets
    /\ sessions' = IF table = "sessions" THEN Without(sessions, i) ELSE sessions
    /\ exercises' = IF table = "exercises" THEN Without(exercises, i) ELSE exercises
    /\ sets' = IF table = "sets" THEN Without(sets, i) ELSE sets
    /\ last' = Outcome("removed", "ok", NaT, NaS, NaN, NaN, NaS, NaS, <<>>)
    /\ UNCHANGED <<issued, direct>>
    /\ calls' = calls + 1

(* ---------- specifications ---------- *)

\* the record builders and quick_log_set, from empty tables, and the joined view
Next ==
    \/ /\ calls < MaxCalls
       /\ \E d \in Dates, g \in Groups : AddSession(d, g)
    \/ /\ calls < MaxCalls
       /\ \E id \in IdArgs, n \in Names : AddExercise(id, n, None, None)
    \/ /\ calls < MaxCalls
       /\ \E id \in IdArgs : AddSet(id, <<1, 100, 5>>)
    \/ /\ calls < MaxCalls
       /\ \E d \in Dates, g \in Groups, n \in Names : QuickLogSet(d, g, n, <<1, 100, 5>>, "chest")
    \/ JoinedSets

Spec == Init /\ [][Next]_vars

\* quick_log_set only, and the progress / weekly reports over the tables it builds
NextAnalytics ==
    \/ /\ calls < MaxLogs
       /\ \E d \in Dates, g \in Groups, n \in Names, a \in SetArgs : QuickLogSet(d, g, n, a, "chest")
    \/ \E n \in Names, m \in Metrics : ExerciseProgress(n, m)
    \/ WeeklyVolumeByMuscle

SpecAnalytics == Init /\ [][NextAnalytics]_vars

\* the builders, with rows removed from the tables between calls
NextRemove ==
    \/ /\ calls < MaxSteps
       /\ AddSession(<<2025, 1, 1>>, "Push")
    \/ /\ calls < MaxSteps
       /\ AddExercise(1, "Bench", None, None)
    \/ /\ calls < MaxSteps
       /\ AddSet(1, <<1, 100, 5>>)
    \/ /\ calls < MaxSteps
       /\ \E g \in Groups : QuickLogSet(<<2025, 1, 1>>, g, "Bench", <<1, 100, 5>>, "chest")
    \/ /\ calls < MaxSteps
       /\ \E t \in {"sessions", "exercises", "sets"}, i \in 1..MaxSteps : RemoveRow(t, i)

SpecRemove == Init /\ [][NextRemove]_vars

(* ---------- properties ---------- *)

TableNames == { "sessions", "exercises", "sets" }

Table(t) == CASE t = "sessions" -> sessions [] t = "exercises" -> exercises [] OTHER -> sets

IdColumn(t) == CASE t = "sessions" -> "session_id" [] t = "exercises" -> "exercise_id" [] OTHER -> "set_id"

Ids(df, id_col) == { df[i][id_col] : i \in DOMAIN df }

NoRepeat(s) == \A i, j \in DOMAIN s : s[i] = s[j] => i = j

SessionsOfKey(date, group) ==
    { i \in DOMAIN sessions : sessions[i].date = date /\ sessions[i].group = group }

ExercisesOfKey(session_id, exercise_name) ==
    { i \in DOMAIN exercises :
        exercises[i].session_id = session_id /\ exercises[i].exercise_name = exercise_name }

\* C1: when every call so far was quick_log_set, starting from empty tables, no
\* two session rows share (date, group), no two exercise rows share
\* (session_id, exercise_name), every call has left exactly one set row, and the
\* key of the last call has exactly one session row and one exercise row.
C1_QuickLogOneRowPerKey ==
    ~direct =>
        /\ \A i, j \in DOMAIN sessions :
              (sessions[i].date = sessions[j].date /\ sessions[i].group = sessions[j].group)
                  => i = j
        /\ \A i, j \in DOMAIN exercises :
              (exercises[i].session_id = exercises[j].session_id
               /\ exercises[i].exercise_name = exercises[j].exercise_name) => i = j
        /\ Len(sets) = calls
        /\ last.op = "quick_log_set" =>
              /\ Cardinality(SessionsOfKey(last.date, last.group)) = 1
              /\ \A i \in SessionsOfKey(last.date, last.group) :
                    Cardinality(ExercisesOfKey(sessions[i].session_id, last.exercise_name)) = 1

\* three quick-log calls with one (date, group, exercise_name): one session row,
\* one exercise row, three set rows
C1_Witness ==
    /\ ~direct
    /\ calls = 3
    /\ Len(sessions) = 1
    /\ Len(exercises) = 1
    /\ Len(sets) = 3

IdsPositiveAndUnique(df, id_col) ==
    /\ \A i \in DOMAIN df : df[i][id_col] \in Nat \ {0}
    /\ \A i, j \in DOMAIN df : df[i][id_col] = df[j][id_col] => i = j

\* the row a call appends carries the largest id of the table before the call plus
\* one, or 1 when the table was empty
AppendsMaxPlusOne(old, new, id_col) ==
    Len(new) > Len(old) =>
        /\ Len(new) = Len(old) + 1
        /\ new[Len(new)][id_col] =
              IF old = <<>> THEN 1
              ELSE (CHOOSE m \in Ids(old, id_col) : \A x \in Ids(old, id_col) : x <= m) + 1

\* C2: after any sequence of add_session, add_exercise, add_set and quick_log_set
\* calls from empty tables, the ids of each table are positive integers without
\* repetition, and each id a call allocates is one more than the largest id the
\* table held before the call (1 for an empty table).
C2_IdsAllocatedMaxPlusOne ==
    /\ [](/\ IdsPositiveAndUnique(sessions, "session_id")
          /\ IdsPositiveAndUnique(exercises, "exercise_id")
          /\ IdsPositiveAndUnique(sets, "set_id"))
    /\ [][/\ AppendsMaxPlusOne(sessions, sessions', "session_id")
          /\ AppendsMaxPlusOne(exercises, exercises', "exercise_id")
          /\ AppendsMaxPlusOne(sets, sets', "set_id")]_vars

\* a direct add_session followed by a quick-log of another key: session ids 1, 2
C2_Witness ==
    /\ direct
    /\ last.op = "quick_log_set"
    /\ Len(sessions) = 2
    /\ sessions[2].session_id = 2
    /\ Len(exercises) = 1
    /\ Len(sets) = 1

\* C3 (as claimed): an id once allocated in a table is never allocated again,
\* even if rows are removed from the table between calls.
C3_NeverAllocatedAgain ==
    \A t \in TableNames : NoRepeat(issued[t])

\* C3 (amended): every id a call allocates is larger than every id the table holds
\* at the time of the call, so an id is not allocated again while a row with that
\* id or a larger one remains in the table.
C3_AllocatedAboveRowsPresent ==
    [][\A t \in TableNames :
          Len(issued'[t]) > Len(issued[t]) =>
              \A k \in Ids(Table(t), IdColumn(t)) : issued'[t][Len(issued'[t])] > k]_vars

\* add_session after the row of a smaller id was removed: the removed id is not
\* handed out again
C3_Witness ==
    /\ last.op = "add_session"
    /\ last.session_id \in Ids(sessions, "session_id")
    /\ NoRepeat(issued.sessions)
    /\ \E k \in Range(issued.sessions) :
          k < last.session_id /\ k \notin Ids(sessions, "session_id")

\* C4 (as claimed): exercise_progress with a metric other than top_set_weight,
\* total_volume or e1rm fails with an invalid-argument error, whatever the tables
\* hold (empty tables and exercises without sets included).
C4_UnknownMetricFails ==
    (last.op = "exercise_progress"
     /\ last.metric \notin {"top_set_weight", "total_volume", "e1rm"})
        => last.status = "ValueError"

\* C5 (as claimed): on the empty tables of a load without persisted data,
\* exercise_progress and weekly_volume_by_muscle return an empty result and
\* raise nothing.
C5_EmptyTablesEmptyResult ==
    (sessions = <<>> /\ exercises = <<>> /\ sets = <<>>) =>
        /\ last.op = "exercise_progress" => (last.status = "ok" /\ Len(last.rows) = 0)
        /\ last.op = "weekly_volume_by_muscle" =>
              (last.status = "ok" /\ Cardinality(last.rows) = 0)

\* the exercise row and the session row a set row belongs to
ExerciseOf(t) == CHOOSE e \in Range(exercises) : e.exercise_id = t.exercise_id

SessionOf(t) == CHOOSE s \in Range(sessions) : s.session_id = ExerciseOf(t).session_id

Resolves(t) ==
    /\ \E e \in Range(exercises) : e.exercise_id = t.exercise_id
    /\ \E s \in Range(sessions) : s.session_id = ExerciseOf(t).session_id

IsoKey(t) ==
    [year |-> isocalendar(SessionOf(t).date).year,
     week |-> isocalendar(SessionOf(t).date).week,
     muscle |-> ExerciseOf(t).muscle]

SetsOfIsoKey(k) == SelectSeq(sets, LAMBDA t : Resolves(t) /\ IsoKey(t) = k)

\* C6 (as claimed): weekly_volume_by_muscle has one row per (ISO year, ISO week,
\* muscle) of the session dates, so two sets of one muscle are counted in the same
\* row exactly when their dates are in the same ISO week of the same ISO year;
\* the row's sets is the number of set rows and volume the sum of weight x reps.
\* (Stated on the groups alone: the year a row is labelled with is left out.)
C6_GroupsByIsoYearAndWeek ==
    (last.op = "weekly_volume_by_muscle" /\ last.status = "ok") =>
        LET keys == { IsoKey(t) : t \in { x \in Range(sets) : Resolves(x) } }
        IN  /\ Cardinality(last.rows) = Cardinality(keys)
            /\ { [week |-> r.week, muscle |-> r.muscle, sets |-> r.sets, volume |-> r.volume]
                    : r \in last.rows }
                = { [week |-> k.week, muscle |-> k.muscle,
                     sets |-> Len(SetsOfIsoKey(k)),
                     volume |-> SumSeq([i \in 1..Len(SetsOfIsoKey(k)) |->
                                   SetsOfIsoKey(k)[i].weight * SetsOfIsoKey(k)[i].reps])]
                    : k \in keys }

\* the sets of one session that belong to exercises of a name
SetsOfSession(s, exercise_name) ==
    SelectSeq(sets, LAMBDA t :
        /\ Resolves(t)
        /\ ExerciseOf(t).exercise_name = exercise_name
        /\ ExerciseOf(t).session_id = s.session_id)

SessionValue(s, exercise_name, metric) ==
    LET g == SetsOfSession(s, exercise_name)
    IN  IF metric = "top_set_weight"
        THEN CHOOSE m \in { g[i].weight : i \in DOMAIN g } :
                \A i \in DOMAIN g : g[i].weight <= m
        ELSE SumSeq([i \in DOMAIN g |-> g[i].weight * g[i].reps])

\* C7 (as claimed): for every session in which the exercise has a set,
\* exercise_progress reports a value computed from that session's sets only (the
\* largest weight for top_set_weight, the sum of weight x reps for total_volume),
\* also when two sessions share a date; the rows are in ascending date order.
C7_ValuePerSession ==
    (last.op = "exercise_progress" /\ last.status = "ok"
     /\ last.metric \in {"top_set_weight", "total_volume"}) =>
        /\ \A s \in Range(sessions) :
              SetsOfSession(s, last.exercise_name) # <<>> =>
                  \E i \in DOMAIN last.rows :
                      /\ last.rows[i].session_date = s.date
                      /\ last.rows[i].value = SessionValue(s, last.exercise_name, last.metric)
        /\ \A i, j \in DOMAIN last.rows :
              i < j => Ordinal(last.rows[i].session_date) <= Ordinal(last.rows[j].session_date)

SetColumns == { "set_id", "exercise_id", "set_number", "weight", "reps", "rir", "comments" }

\* C8: over tables built by any sequence of add_session, add_exercise, add_set and
\* quick_log_set calls, orphan rows included, the joined view has exactly one row
\* per set row, in the order of the set rows, carrying the set's own columns; the
\* columns of an exercise or session that does not resolve are absent, those of
\* one that resolves are its values.
C8_JoinedViewOneRowPerSet ==
    last.op = "_joined_sets" =>
        /\ Len(last.rows) = Len(sets)
        /\ \A i \in DOMAIN sets :
              LET r == last.rows[i]
                  es == { e \in Range(exercises) : e.exercise_id = sets[i].exercise_id }
                  ss == { x \in Range(sessions) : \E e \in es : x.session_id = e.session_id }
              IN  /\ \A c \in SetColumns : r[c] = sets[i][c]
                  /\ es = {} => (r.exercise_name = NaS /\ r.muscle = NaS /\ r.session_id = NaN)
                  /\ \A e \in es : (r.exercise_name = e.exercise_name /\ r.muscle = e.muscle
                                    /\ r.session_id = e.session_id)
                  /\ ss = {} => (r.session_date = NaT /\ r.group_sess = NaS /\ r.notes = NaS)
                  /\ \A x \in ss : (r.session_date = x.date /\ r.group_sess = x.group
                                    /\ r.notes = x.notes)

\* the joined view of a set under an exercise that exists in no exercise row, next
\* to a set whose exercise resolves to a session that exists in no session row
C8_Witness ==
    /\ last.op = "_joined_sets"
    /\ Len(last.rows) = 2
    /\ \E i, j \in DOMAIN last.rows :
          /\ last.rows[i].exercise_name = NaS
          /\ last.rows[j].exercise_name # NaS
          /\ last.rows[j].session_date = NaT

\* C9: when every call so far was quick_log_set, starting from empty tables, every
\* exercise row's session_id is the id of a session row and every set row's
\* exercise_id is the id of an exercise row; and after a quick_log_set call on any
\* tables the set row it appended is under an exercise of the returned exercises
\* table, which is under a session of the returned sessions table.
C9_QuickLogReferencesResolve ==
    /\ ~direct =>
          /\ \A i \in DOMAIN exercises :
                exercises[i].session_id \in Ids(sessions, "session_id")
          /\ \A i \in DOMAIN sets : sets[i].exercise_id \in Ids(exercises, "exercise_id")
    /\ last.op = "quick_log_set" =>
          /\ sets # <<>>
          /\ sets[Len(sets)].exercise_id = last.exercise_id
          /\ \E e \in Range(exercises) :
                /\ e.exercise_id = sets[Len(sets)].exercise_id
                /\ e.exercise_name = last.exercise_name
                /\ e.session_id = last.session_id
                /\ \E s \in Range(sessions) :
                      /\ s.session_id = e.session_id
                      /\ s.date = last.date
                      /\ s.group = last.group

\* a quick-log call on tables that hold an exercise row under no session
C9_Witness ==
    /\ last.op = "quick_log_set"
    /\ direct
    /\ \E i \in DOMAIN exercises : exercises[i].session_id \notin Ids(sessions, "session_id")

\* C10: a quick_log_set call on tables that hold one or several session rows of
\* its (date, group) takes the first of them in table order and leaves the
\* sessions table as it is; if one or several exercise rows of that session and
\* the exercise name exist it takes the first of them, leaves the exercises table
\* as it is, and appends one set row under that exercise.
C10_FirstMatchWins ==
    [][(last'.op = "quick_log_set" /\ calls' = calls + 1) =>
          LET sm == SessionsOfKey(last'.date, last'.group)
              i0 == CHOOSE i \in sm : \A j \in sm : i <= j
              em == ExercisesOfKey(sessions[i0].session_id, last'.exercise_name)
              j0 == CHOOSE i \in em : \A j \in em : i <= j
          IN  sm # {} =>
                 /\ sessions' = sessions
                 /\ last'.session_id = sessions[i0].session_id
                 /\ em # {} =>
                       /\ exercises' = exercises
                       /\ Len(sets') = Len(sets) + 1
                       /\ SubSeq(sets', 1, Len(sets)) = sets
                       /\ sets'[Len(sets')].exercise_id = exercises[j0].exercise_id
                 /\ em = {} =>
                       /\ Len(exercises') = Len(exercises) + 1
                       /\ exercises'[Len(exercises')].session_id = sessions[i0].session_id]_vars

\* a quick-log call on two session rows of its (date, group): the set is under the
\* first of them, and both are still there
C10_Witness ==
    /\ last.op = "quick_log_set"
    /\ Len(sessions) = 2
    /\ sessions[1].date = last.date /\ sessions[2].date = last.date
    /\ sessions[1].group = last.group /\ sessions[2].group = last.group
    /\ last.session_id = sessions[1].session_id
    /\ last.session_id # sessions[2].session_id
    /\ \E e \in Range(exercises) :
          e.exercise_id = sets[Len(sets)].exercise_id /\ e.session_id = sessions[1].session_id

====
